---- MODULE Spec2Model ----
(***************************************************************************)
(* railway-image-updater: the PUT /update handler (main.go) and the        *)
(* Railway GraphQL client (railway client: doRequest, GetServices,         *)
(* UpdateServiceImage, UpdateServices).                                    *)
(*                                                                         *)
(* Go strings that the code inspects (images, prefixes, versions) are      *)
(* sequences of one-character strings: "a:b" is <<"a", ":", "b">>.         *)
(* Strings the code only copies (names, ids, message texts) are TLA+       *)
(* strings.  A Go error is the sequence of the segments that %w wrapping   *)
(* joins with ": "; the nil error is the empty sequence.                   *)
(***************************************************************************)
EXTENDS Integers, Sequences, FiniteSets, TLC

VARIABLES
    pc,               \* where the handler of the current request stands
    req,              \* the HTTP request being handled
    services,         \* the []Service GetServices returned
    idx,              \* position of the UpdateServices loop in services
    updatedServices,  \* the updatedServices slice of UpdateServices
    calls,            \* history: the remote calls issued for this request
    resp,             \* the HTTP response written for this request
    rwImage,          \* rewrite harness: service.Image
    rwPrefixes,       \* rewrite harness: imagePrefixes
    rwVersion,        \* rewrite harness: newVersion
    rwOut,            \* rewrite harness: the result of the match and rewrite
    rwAgain,          \* rewrite harness: the result for the rewritten image
    mpOut,            \* matchesPrefix harness: the result of matchesPrefix
    rcDoc,            \* replica harness: what the platform holds as deployment
    rcRuns,           \* replica harness: the calls of resolveReplicaCount so far
    client,           \* the RailwayClient main hands to every request
    conns,            \* server: the handler goroutine of each connection
    wire              \* server: the remote calls in the order they were sent

vars == <<pc, req, services, idx, updatedServices, calls, resp,
          rwImage, rwPrefixes, rwVersion, rwOut, rwAgain, mpOut, rcDoc, rcRuns,
          client, conns, wire>>

handlerVars == <<pc, req, services, idx, updatedServices, calls, resp>>
rwVars == <<rwImage, rwPrefixes, rwVersion, rwOut, rwAgain>>

\* what the handler of a request never touches
rcVars == <<rcDoc, rcRuns>>
srvVars == <<conns, wire>>
harnessVars == <<rwVars, mpOut, rcVars, client, srvVars>>

(***************************************************************************)
(* Bounds                                                                  *)
(***************************************************************************)
MaxServices == 3      \* service instances in one remote response
MaxPrefixes == 2      \* prefixes in one request
MaxImageLen == 4      \* rewrite harness: characters of an image
MaxPrefixLen == 2     \* rewrite harness: characters of a prefix

(***************************************************************************)
(* Strings                                                                 *)
(***************************************************************************)
Alphabet == {"a", "b", ":"}

SeqsUpTo(S, n) == UNION {[1..k -> S] : k \in 0..n}

\* strings.HasPrefix(s, prefix)
HasPrefix(s, prefix) ==
    /\ Len(prefix) <= Len(s)
    /\ SubSeq(s, 1, Len(prefix)) = prefix

\* strings.Index(s, sep) for a one-character sep, 1-based; 0 when absent
IndexOf(s, sep) ==
    IF \E i \in 1..Len(s) : s[i] = sep
    THEN CHOOSE i \in 1..Len(s) :
             /\ s[i] = sep
             /\ \A j \in 1..(i - 1) : s[j] # sep
    ELSE 0

\* strings.Split(s, sep) for a one-character sep
RECURSIVE Split(_, _)
Split(s, sep) ==
    LET i == IndexOf(s, sep)
    IN  IF i = 0
        THEN <<s>>
        ELSE <<SubSeq(s, 1, i - 1)>> \o Split(SubSeq(s, i + 1, Len(s)), sep)

(***************************************************************************)
(* Matcher and tag rewriter (the body of the UpdateServices loop)          *)
(***************************************************************************)

\* The prefix loop: the position in imagePrefixes of the first prefix that
\* service.Image starts with (imagePrefix), 0 when matched stays false.
matched(image, imagePrefixes) ==
    IF \E i \in 1..Len(imagePrefixes) : HasPrefix(image, imagePrefixes[i])
    THEN CHOOSE i \in 1..Len(imagePrefixes) :
             /\ HasPrefix(image, imagePrefixes[i])
             /\ \A j \in 1..(i - 1) : ~HasPrefix(image, imagePrefixes[j])
    ELSE 0

\* mutant of retag: the image is cut at its last ':' and keeps what is before
retag_LastColon(image, newVersion) ==
    LET imageParts == Split(image, ":")
    IN  IF Len(imageParts) > 1
        THEN SubSeq(image, 1, Len(image) - Len(imageParts[Len(imageParts)]))
                 \o newVersion
        ELSE image \o <<":">> \o newVersion

\* imageParts := strings.Split(service.Image, ":"), then the tag is replaced
\* by keeping imageParts[0], or appended when there is a single part.
retag(image, newVersion) ==
    LET imageParts == Split(image, ":")
    IN  IF Len(imageParts) > 1
        THEN imageParts[1] \o <<":">> \o newVersion
        ELSE image \o <<":">> \o newVersion

\* mutant of newImage: the retagged image is sent as it is
newImage_NoFallback(image, imagePrefix, newVersion) ==
    retag(image, newVersion)

\* newImage as sent to UpdateServiceImage: the retagged image, or
\* imagePrefix:newVersion when the retagged image lost the prefix.
newImage(image, imagePrefix, newVersion) ==
    LET tagged == retag(image, newVersion)
    IN  IF ~HasPrefix(tagged, imagePrefix)
        THEN imagePrefix \o <<":">> \o newVersion
        ELSE tagged

\* mutant of matchesPrefix: the loop returns after looking at the first prefix
matchesPrefix_FirstOnly(image, prefixes) ==
    IF prefixes = <<>>
    THEN FALSE
    ELSE HasPrefix(image, Head(prefixes))

\* matchesPrefix of main.go: the range loop over prefixes, true at the first
\* prefix the image starts with, false when the loop runs out
RECURSIVE matchesPrefix(_, _)
matchesPrefix(image, prefixes) ==
    IF prefixes = <<>>
    THEN FALSE
    ELSE IF HasPrefix(image, Head(prefixes))
    THEN TRUE
    ELSE matchesPrefix(image, Tail(prefixes))

(***************************************************************************)
(* JSON: values, their text as a sequence of tokens, and encoding/json     *)
(***************************************************************************)
Null == [t |-> "null"]
Num(n, d) == [t |-> "num", n |-> n, d |-> d]         \* the number n/d, d > 0
Str(text) == [t |-> "str", text |-> text]
Bool(b) == [t |-> "bool", b |-> b]
Arr(items) == [t |-> "arr", items |-> items]         \* items in text order
Member(k, v) == [k |-> k, v |-> v]
Obj(members) == [t |-> "obj", members |-> members]   \* members in text order

Punct(c) == [tok |-> c]                              \* one of { } [ ] : ,
Word(w) == [tok |-> "word", w |-> w]                 \* a bare word
NumTok(n, d) == [tok |-> "num", n |-> n, d |-> d]    \* a number literal
StrTok(text) == [tok |-> "str", text |-> text]       \* a quoted string, unescaped
Key(name) == <<Word(name)>>

\* the text the platform writes for a value
RECURSIVE Encode(_), EncodeMembers(_), EncodeItems(_)
Encode(v) ==
    CASE v.t = "null" -> <<Word("null")>>
      [] v.t = "bool" -> <<Word(IF v.b THEN "true" ELSE "false")>>
      [] v.t = "num" -> <<NumTok(v.n, v.d)>>
      [] v.t = "str" -> <<StrTok(v.text)>>
      [] v.t = "arr" -> <<Punct("[")>> \o EncodeItems(v.items) \o <<Punct("]")>>
      [] v.t = "obj" -> <<Punct("{")>> \o EncodeMembers(v.members) \o <<Punct("}")>>

EncodeItems(items) ==
    IF items = <<>>
    THEN <<>>
    ELSE Encode(Head(items))
         \o (IF Len(items) = 1 THEN <<>> ELSE <<Punct(",")>>)
         \o EncodeItems(Tail(items))

EncodeMembers(members) ==
    IF members = <<>>
    THEN <<>>
    ELSE <<StrTok(Head(members).k), Punct(":")>> \o Encode(Head(members).v)
         \o (IF Len(members) = 1 THEN <<>> ELSE <<Punct(",")>>)
         \o EncodeMembers(Tail(members))

\* the decoder of encoding/json: one value from the head of the text
SyntaxError == [ok |-> FALSE, v |-> Null, rest |-> <<>>]
Parsed(v, rest) == [ok |-> TRUE, v |-> v, rest |-> rest]

RECURSIVE parseValue(_), parseMembers(_, _), parseItems(_, _)
parseValue(toks) ==
    IF toks = <<>>
    THEN SyntaxError
    ELSE LET h == Head(toks) IN
         CASE h.tok = "word" ->
                  CASE h.w = "null" -> Parsed(Null, Tail(toks))
                    [] h.w = "true" -> Parsed(Bool(TRUE), Tail(toks))
                    [] h.w = "false" -> Parsed(Bool(FALSE), Tail(toks))
                    [] OTHER -> SyntaxError
           [] h.tok = "num" -> Parsed(Num(h.n, h.d), Tail(toks))
           [] h.tok = "str" -> Parsed(Str(h.text), Tail(toks))
           [] h.tok = "{" ->
                  IF Len(toks) >= 2 /\ toks[2].tok = "}"
                  THEN Parsed(Obj(<<>>), SubSeq(toks, 3, Len(toks)))
                  ELSE parseMembers(Tail(toks), <<>>)
           [] h.tok = "[" ->
                  IF Len(toks) >= 2 /\ toks[2].tok = "]"
                  THEN Parsed(Arr(<<>>), SubSeq(toks, 3, Len(toks)))
                  ELSE parseItems(Tail(toks), <<>>)
           [] OTHER -> SyntaxError

parseItems(toks, acc) ==
    LET val == parseValue(toks) IN
    IF ~val.ok \/ val.rest = <<>>
    THEN SyntaxError
    ELSE LET items == Append(acc, val.v)
             sep == Head(val.rest)
         IN  IF sep.tok = "]"
             THEN Parsed(Arr(items), Tail(val.rest))
             ELSE IF sep.tok = ","
             THEN parseItems(Tail(val.rest), items)
             ELSE SyntaxError

parseMembers(toks, acc) ==
    IF Len(toks) < 3 \/ toks[1].tok # "str" \/ toks[2].tok # ":"
    THEN SyntaxError
    ELSE LET val == parseValue(SubSeq(toks, 3, Len(toks))) IN
         IF ~val.ok \/ val.rest = <<>>
         THEN SyntaxError
         ELSE LET members == Append(acc, Member(toks[1].text, val.v))
                  sep == Head(val.rest)
              IN  IF sep.tok = "}"
                  THEN Parsed(Obj(members), Tail(val.rest))
                  ELSE IF sep.tok = ","
                  THEN parseMembers(Tail(val.rest), members)
                  ELSE SyntaxError

\* json.Unmarshal(data, &meta) with meta a map[string]interface{}: a nil map
\* reads like the empty one
NilMap == Obj(<<>>)
UnmarshalMap(data) ==
    LET p == parseValue(data) IN
    IF ~p.ok \/ p.rest # <<>>
    THEN [err |-> TRUE, meta |-> NilMap]
    ELSE IF p.v.t = "obj"
    THEN [err |-> FALSE, meta |-> p.v]
    ELSE [err |-> p.v.t # "null", meta |-> NilMap]

\* json.Unmarshal(data, &metaStr) with metaStr a string
UnmarshalString(data) ==
    LET p == parseValue(data) IN
    IF ~p.ok \/ p.rest # <<>>
    THEN [err |-> TRUE, str |-> <<>>]
    ELSE IF p.v.t = "str"
    THEN [err |-> FALSE, str |-> p.v.text]
    ELSE [err |-> p.v.t # "null", str |-> <<>>]

\* m[key] of a decoded object: the last member of that name, nil without one
Index(m, key) ==
    LET at == {i \in 1..Len(m.members) : m.members[i].k = key} IN
    IF at = {}
    THEN Null
    ELSE m.members[CHOOSE i \in at : \A j \in at : j <= i].v

\* the keys of a decoded object
Keys(m) == {m.members[i].k : i \in 1..Len(m.members)}

\* x.(map[string]interface{}) and x.(float64): the ok of the assertion
IsMap(x) == x.t = "obj"
IsFloat64(x) == x.t = "num"

\* int(x) of a float64: the fraction is dropped
int(x) == IF x.n >= 0 THEN x.n \div x.d ELSE -((-x.n) \div x.d)

(***************************************************************************)
(* resolveReplicaCount                                                     *)
(***************************************************************************)
NilDeployment == [nil |-> TRUE, Meta |-> [nil |-> TRUE, data |-> <<>>]]
NilMeta == [nil |-> FALSE, Meta |-> [nil |-> TRUE, data |-> <<>>]]
Deployment(data) == [nil |-> FALSE, Meta |-> [nil |-> FALSE, data |-> data]]

\* the two decodes of Meta: as an object, else as a string holding an object
decodeMeta(latestDeployment) ==
    LET direct == UnmarshalMap(latestDeployment.Meta.data)
        metaStr == UnmarshalString(latestDeployment.Meta.data)
    IN  IF ~direct.err
        THEN direct
        ELSE IF metaStr.err
        THEN [err |-> TRUE, meta |-> NilMap]
        ELSE UnmarshalMap(metaStr.str)

\* meta.serviceManifest.deploy.multiRegionConfig, ok when every level is an
\* object
navigate(meta) ==
    LET serviceManifest == Index(meta, Key("serviceManifest"))
        deploy == Index(serviceManifest, Key("deploy"))
        multiRegionConfig == Index(deploy, Key("multiRegionConfig"))
    IN  IF ~IsMap(serviceManifest) \/ ~IsMap(deploy) \/ ~IsMap(multiRegionConfig)
        THEN [ok |-> FALSE, multiRegionConfig |-> NilMap]
        ELSE [ok |-> TRUE, multiRegionConfig |-> multiRegionConfig]

\* the range loop over multiRegionConfig, its keys visited in this order
RECURSIVE scanRegions(_, _)
scanRegions(multiRegionConfig, order) ==
    IF order = <<>>
    THEN 1
    ELSE LET regionMap == Index(multiRegionConfig, Head(order))
             numReplicas == Index(regionMap, Key("numReplicas"))
         IN  IF ~IsMap(regionMap)
             THEN scanRegions(multiRegionConfig, Tail(order))
             ELSE IF IsFloat64(numReplicas) /\ numReplicas.n > 0
             THEN int(numReplicas)
             ELSE scanRegions(multiRegionConfig, Tail(order))

\* the regions the range loop of this call goes over, none when the call
\* returns before the loop
rangeOf(latestDeployment) ==
    IF latestDeployment.nil \/ latestDeployment.Meta.nil
    THEN {}
    ELSE LET decoded == decodeMeta(latestDeployment) IN
         IF decoded.err \/ ~navigate(decoded.meta).ok
         THEN {}
         ELSE Keys(navigate(decoded.meta).multiRegionConfig)

\* a map is ranged over in an order the runtime picks
Orders(keys) ==
    {order \in [1..Cardinality(keys) -> keys] :
        \A i, j \in 1..Cardinality(keys) : order[i] = order[j] => i = j}

resolveReplicaCount(latestDeployment, order) ==
    IF latestDeployment.nil \/ latestDeployment.Meta.nil
    THEN 1
    ELSE LET decoded == decodeMeta(latestDeployment) IN
         IF decoded.err
         THEN 1
         ELSE IF ~navigate(decoded.meta).ok
         THEN 1
         ELSE scanRegions(navigate(decoded.meta).multiRegionConfig, order)

\* what the platform holds for an instance: no deployment, a deployment
\* without metadata, metadata that is not JSON, or a JSON value
NoDeployment == [kind |-> "nodeployment", value |-> Null]
NoMeta == [kind |-> "nometa", value |-> Null]
NotJSON == [kind |-> "notjson", value |-> Null]

(***************************************************************************)
(* Go values                                                               *)
(***************************************************************************)

\* a []string: the nil slice and the empty slice differ (JSON null against [])
NilSlice == [isNil |-> TRUE, elems |-> <<>>]
make(elems) == [isNil |-> FALSE, elems |-> elems]
append(slice, x) == [isNil |-> FALSE, elems |-> Append(slice.elems, x)]

\* the nil error, and fmt.Errorf("msg: %w", err)
NoError == <<>>
Errorf(msg, err) == <<msg>> \o err

(***************************************************************************)
(* The remote platform's replies and doRequest                             *)
(***************************************************************************)
\* data that does not fit the struct GetServices decodes into
NoData == [shape |-> FALSE, edges |-> <<>>, hasNextPage |-> FALSE, behind |-> <<>>]

\* what one POST to the GraphQL endpoint can come back with
Replies(datas) ==
    [neterr : BOOLEAN, readerr : BOOLEAN, status : {200, 503},
     json : BOOLEAN, errors : {<<>>, <<"boom">>}, data : datas]

ReplyOK(r) ==
    /\ ~r.neterr
    /\ ~r.readerr
    /\ r.status = 200
    /\ r.json
    /\ r.errors = <<>>

\* a failed exchange carries no usable data; a good one carries one of datas
RemoteReplies(datas) ==
    {r \in Replies({NoData}) : ~ReplyOK(r)} \cup {r \in Replies(datas) : ReplyOK(r)}

\* mutant of doRequest: the status code of the reply is not looked at
doRequest_NoStatusCheck(reply) ==
    IF reply.neterr
    THEN [err |-> Errorf("failed to execute request", <<"connection refused">>),
          data |-> NoData]
    ELSE IF reply.readerr
    THEN [err |-> Errorf("failed to read response", <<"unexpected EOF">>),
          data |-> NoData]
    ELSE IF ~reply.json
    THEN [err |-> Errorf("failed to unmarshal response", <<"invalid character">>),
          data |-> NoData]
    ELSE IF Len(reply.errors) > 0
    THEN [err |-> <<"GraphQL error", reply.errors[1]>>, data |-> NoData]
    ELSE [err |-> NoError, data |-> reply.data]

\* doRequest: the error, in the order the code tests for it, or the data
doRequest(reply) ==
    IF reply.neterr
    THEN [err |-> Errorf("failed to execute request", <<"connection refused">>),
          data |-> NoData]
    ELSE IF reply.readerr
    THEN [err |-> Errorf("failed to read response", <<"unexpected EOF">>),
          data |-> NoData]
    ELSE IF reply.status # 200
    THEN [err |-> <<"API returned status", ToString(reply.status)>>,
          data |-> NoData]
    ELSE IF ~reply.json
    THEN [err |-> Errorf("failed to unmarshal response", <<"invalid character">>),
          data |-> NoData]
    ELSE IF Len(reply.errors) > 0
    THEN [err |-> <<"GraphQL error", reply.errors[1]>>, data |-> NoData]
    ELSE [err |-> NoError, data |-> reply.data]

(***************************************************************************)
(* HTTP requests and responses                                             *)
(***************************************************************************)
\* a string of the request is the sequence of its bytes
ProjectUUID ==
    <<"5", "5", "0", "e", "8", "4", "0", "0", "-", "e", "2", "9", "b", "-",
      "4", "1", "d", "4", "-", "a", "7", "1", "6", "-", "4", "4", "6", "6",
      "5", "5", "4", "4", "0", "0", "0", "0">>
EnvironmentUUID ==
    <<"5", "5", "0", "e", "8", "4", "0", "0", "-", "e", "2", "9", "b", "-",
      "4", "1", "d", "4", "-", "a", "7", "1", "6", "-", "4", "4", "6", "6",
      "5", "5", "4", "4", "0", "0", "0", "1">>
InvalidUUID ==
    <<"i", "n", "v", "a", "l", "i", "d", "-", "u", "u", "i", "d">>
NotHexUUID ==
    <<"5", "5", "0", "e", "8", "4", "0", "0", "-", "e", "2", "9", "b", "-",
      "4", "1", "d", "4", "-", "a", "7", "1", "6", "-", "4", "4", "6", "6",
      "5", "5", "4", "4", "0", "0", "0", "g">>
SecondProjectUUID ==
    <<"6", "b", "a", "7", "b", "8", "1", "0", "-", "9", "d", "a", "d", "-",
      "1", "1", "d", "1", "-", "8", "0", "b", "4", "-", "0", "0", "c", "0",
      "4", "f", "d", "4", "3", "0", "c", "8">>
\* the projects of two requests on one environment
ValidUUIDs == {ProjectUUID, SecondProjectUUID}

\* the project_id and environment_id values of the handler's requests
ProjectIDs == {ProjectUUID, InvalidUUID}
EnvironmentIDs == {EnvironmentUUID, InvalidUUID, NotHexUUID}

\* strings.EqualFold on ASCII text
UpperCase == <<"A", "B", "C", "D", "E", "F", "G", "H", "I", "J", "K", "L", "M",
               "N", "O", "P", "Q", "R", "S", "T", "U", "V", "W", "X", "Y", "Z">>
LowerCase == <<"a", "b", "c", "d", "e", "f", "g", "h", "i", "j", "k", "l", "m",
               "n", "o", "p", "q", "r", "s", "t", "u", "v", "w", "x", "y", "z">>
ToLower(c) ==
    IF \E i \in 1..Len(UpperCase) : UpperCase[i] = c
    THEN LowerCase[CHOOSE i \in 1..Len(UpperCase) : UpperCase[i] = c]
    ELSE c
EqualFold(s, t) ==
    /\ Len(s) = Len(t)
    /\ \A i \in 1..Len(s) : ToLower(s[i]) = ToLower(t[i])

\* the bytes uuid.Parse takes for hexadecimal digits
HexDigits == {"0", "1", "2", "3", "4", "5", "6", "7", "8", "9",
              "a", "b", "c", "d", "e", "f", "A", "B", "C", "D", "E", "F"}
UrnPrefix == <<"u", "r", "n", ":", "u", "u", "i", "d", ":">>

\* the 36 bytes xxxxxxxx-xxxx-xxxx-xxxx-xxxxxxxxxxxx of s after the first off
\* bytes: hyphens in their four places, hexadecimal digits everywhere else
IsHyphenated(s, off) ==
    \A i \in 1..36 :
        IF i \in {9, 14, 19, 24}
        THEN s[off + i] = "-"
        ELSE s[off + i] \in HexDigits

\* uuid.Parse(s) returns no error: by the length of s, the hyphenated form,
\* that form after urn:uuid: in either case, that form between two bytes
\* which are not looked at, or 32 hexadecimal digits
IsUUID(s) ==
    CASE Len(s) = 36 -> IsHyphenated(s, 0)
      [] Len(s) = 45 -> EqualFold(SubSeq(s, 1, 9), UrnPrefix) /\ IsHyphenated(s, 9)
      [] Len(s) = 38 -> IsHyphenated(s, 1)
      [] Len(s) = 32 -> \A i \in 1..32 : s[i] \in HexDigits
      [] OTHER -> FALSE

Methods == {"PUT", "GET", "POST"}

\* the images, prefixes and versions of the handler's requests and replies
ImagePool == {<<>>, <<"a", ":", "b">>, <<"b">>}
PrefixPool == {<<>>, <<"a">>, <<"b", ":">>}
Versions == {<<>>, <<"v">>}
PrefixLists == SeqsUpTo(PrefixPool, MaxPrefixes)

\* a body json.Decode rejects leaves req at its zero value
MalformedBody ==
    [malformed |-> TRUE, project_id |-> <<>>,
     environment_id |-> <<>>, image_prefixes |-> <<>>,
     new_version |-> <<>>]

\* the UpdateRequest a body decodes to
Bodies ==
    {MalformedBody} \cup
    [malformed : {FALSE}, project_id : ProjectIDs,
     environment_id : EnvironmentIDs,
     image_prefixes : PrefixLists, new_version : Versions]

Requests == [method : Methods, body : Bodies]

NoRequest == [method |-> "", body |-> MalformedBody]

NoResponse == [status |-> 0, body |-> [none |-> TRUE]]

\* w.WriteHeader(status) and the encoded ErrorResponse / SuccessResponse
ErrorResponse(status, error) == [status |-> status, body |-> [error |-> error]]
SuccessResponse(message, updated) ==
    [status |-> 200, body |-> [message |-> message, updated_services |-> updated]]

\* mutant of ValidationError: the check of new_version is missing
ValidationError_NoVersionCheck(r) ==
    IF r.method # "PUT"
    THEN ErrorResponse(405, <<"Method not allowed, use PUT">>)
    ELSE IF r.body.malformed
    THEN ErrorResponse(400, <<"Invalid JSON", "invalid character">>)
    ELSE IF ~IsUUID(r.body.project_id)
    THEN ErrorResponse(400, <<"Invalid project_id", "must be a valid UUID">>)
    ELSE IF ~IsUUID(r.body.environment_id)
    THEN ErrorResponse(400, <<"Invalid environment_id", "must be a valid UUID">>)
    ELSE IF Len(r.body.image_prefixes) = 0
    THEN ErrorResponse(400, <<"image_prefixes cannot be empty">>)
    ELSE NoResponse

\* mutant of ValidationError: the body is decoded before the method is tested
ValidationError_DecodeFirst(r) ==
    IF r.body.malformed
    THEN ErrorResponse(400, <<"Invalid JSON", "invalid character">>)
    ELSE IF r.method # "PUT"
    THEN ErrorResponse(405, <<"Method not allowed, use PUT">>)
    ELSE IF ~IsUUID(r.body.project_id)
    THEN ErrorResponse(400, <<"Invalid project_id", "must be a valid UUID">>)
    ELSE IF ~IsUUID(r.body.environment_id)
    THEN ErrorResponse(400, <<"Invalid environment_id", "must be a valid UUID">>)
    ELSE IF Len(r.body.image_prefixes) = 0
    THEN ErrorResponse(400, <<"image_prefixes cannot be empty">>)
    ELSE IF r.body.new_version = <<>>
    THEN ErrorResponse(400, <<"new_version cannot be empty">>)
    ELSE NoResponse

\* handleUpdate up to the call of UpdateServices: the response of the first
\* check that fails, NoResponse when the request passes them all
ValidationError(r) ==
    IF r.method # "PUT"
    THEN ErrorResponse(405, <<"Method not allowed, use PUT">>)
    ELSE IF r.body.malformed
    THEN ErrorResponse(400, <<"Invalid JSON", "invalid character">>)
    ELSE IF ~IsUUID(r.body.project_id)
    THEN ErrorResponse(400, <<"Invalid project_id", "must be a valid UUID">>)
    ELSE IF ~IsUUID(r.body.environment_id)
    THEN ErrorResponse(400, <<"Invalid environment_id", "must be a valid UUID">>)
    ELSE IF Len(r.body.image_prefixes) = 0
    THEN ErrorResponse(400, <<"image_prefixes cannot be empty">>)
    ELSE IF r.body.new_version = <<>>
    THEN ErrorResponse(400, <<"new_version cannot be empty">>)
    ELSE NoResponse

\* mutant of respond: the no-match answer encodes the nil slice (JSON null)
respond_NullList(updated, err) ==
    IF err # NoError
    THEN ErrorResponse(500, Errorf("Failed to update services", err))
    ELSE IF Len(updated.elems) = 0
    THEN SuccessResponse(<<"No services matched the provided image prefixes">>,
                         NilSlice)
    ELSE SuccessResponse(<<"Successfully updated", ToString(Len(updated.elems)),
                           "service(s)">>, updated)

\* handleUpdate after UpdateServices returned (updated, err)
respond(updated, err) ==
    IF err # NoError
    THEN ErrorResponse(500, Errorf("Failed to update services", err))
    ELSE IF Len(updated.elems) = 0
    THEN SuccessResponse(<<"No services matched the provided image prefixes">>,
                         make(<<>>))
    ELSE SuccessResponse(<<"Successfully updated", ToString(Len(updated.elems)),
                           "service(s)">>, updated)

(***************************************************************************)
(* The remote environment                                                  *)
(***************************************************************************)
\* the edges of one serviceInstances reply: the node at position i has
\* serviceId i and serviceName "svc<i>"
Edges(images) ==
    [i \in 1..Len(images) |->
        [id |-> i, name |-> "svc" \o ToString(i), image |-> images[i]]]

EdgeLists == {Edges(images) : images \in SeqsUpTo(ImagePool, MaxServices)}

\* serviceInstances(after: null) of an environment whose instances are page
\* \o behind: the reply carries the edges of page, and pageInfo.hasNextPage
\* tells whether the platform keeps instances behind the page's end cursor
ListData(page, behind) ==
    [shape |-> TRUE, edges |-> page, hasNextPage |-> behind # <<>>,
     behind |-> behind]

\* the platform returns the whole environment in one page
WholeListDatas == {ListData(e, <<>>) : e \in EdgeLists}

\* the platform keeps the last instance of the environment for a next page
PartListDatas ==
    {ListData(SubSeq(e, 1, Len(e) - 1), SubSeq(e, Len(e), Len(e))) :
        e \in EdgeLists \ {<<>>}}

\* data of a reply to the Environment query; NoData does not fit the struct
ListDatas == WholeListDatas \cup PartListDatas \cup {NoData}

\* data of a reply to a mutation (a boolean): the code never looks at it
MutationDatas == {[shape |-> TRUE, edges |-> <<>>]}

\* mutant of nodesWithImage: every node becomes a service
nodesWithImage_All(edges) == edges

\* GetServices after a good doRequest: the nodes with a non-empty image
nodesWithImage(edges) == SelectSeq(edges, LAMBDA e : e.image # <<>>)

\* NewRailwayClient: the client holds what it is given
NewRailwayClient(token, registryUser, registryPass) ==
    [token |-> token,
     registryCredentialUser |-> registryUser,
     registryCredentialPass |-> registryPass]

NoCredentials == [present |-> FALSE, username |-> "", password |-> ""]

\* mutant of registryCredentials: one of the two values is enough
registryCredentials_Either(c) ==
    IF c.registryCredentialUser # "" \/ c.registryCredentialPass # ""
    THEN [present |-> TRUE, username |-> c.registryCredentialUser,
          password |-> c.registryCredentialPass]
    ELSE NoCredentials

\* input["registryCredentials"] of the update mutation of client c
registryCredentials(c) ==
    IF c.registryCredentialUser # "" /\ c.registryCredentialPass # ""
    THEN [present |-> TRUE, username |-> c.registryCredentialUser,
          password |-> c.registryCredentialPass]
    ELSE NoCredentials

\* the reply field of a call that has not returned
NoReply ==
    [neterr |-> FALSE, readerr |-> FALSE, status |-> 0, json |-> FALSE,
     errors |-> <<>>, data |-> NoData]

\* one entry of the history of remote calls: the operation and its
\* variables; then the reply and the error the caller got for it
Call(op, env, id, image) ==
    [op |-> op, env |-> env, id |-> id, image |-> image,
     credentials |-> NoCredentials,
     done |-> FALSE, reply |-> NoReply, err |-> NoError]

\* the last call of the history has returned reply, which its caller took as err
Returned(log, reply, err) ==
    [log EXCEPT ![Len(log)] = [@ EXCEPT !.done = TRUE, !.reply = reply, !.err = err]]

(***************************************************************************)
(* The server: http.ListenAndServe runs the handler of every connection in *)
(* a goroutine of its own                                                  *)
(***************************************************************************)
MaxConns == 2
Conns == 1..MaxConns

\* the handler of a connection: where it stands in handleUpdate and the
\* locals of handleUpdate and UpdateServices
Goroutine ==
    [pc |-> "idle", req |-> NoRequest, services |-> <<>>, idx |-> 0,
     updatedServices |-> NilSlice, resp |-> NoResponse, replies |-> <<>>]

\* one remote call on the wire: the connection whose handler sent it, the
\* operation and its variables
Sent(c, op, env, id, image) ==
    [conn |-> c, op |-> op, env |-> env, id |-> id, image |-> image]

\* the handler h has read one more reply
Received(h, reply) == [h EXCEPT !.replies = Append(@, reply)]

(***************************************************************************)
(* The handler of one request, split at its blocking remote calls          *)
(***************************************************************************)
Init ==
    /\ pc = "idle"
    /\ req = NoRequest
    /\ services = <<>>
    /\ idx = 0
    /\ updatedServices = NilSlice
    /\ calls = <<>>
    /\ resp = NoResponse
    /\ rwImage = <<>>
    /\ rwPrefixes = <<>>
    /\ rwVersion = <<>>
    /\ rwOut = [applied |-> FALSE, matched |-> 0, image |-> <<>>]
    /\ rwAgain = [applied |-> FALSE, matched |-> 0, image |-> <<>>]
    /\ mpOut = [applied |-> FALSE, result |-> FALSE]
    /\ rcDoc = NoDeployment
    /\ rcRuns = <<>>
    /\ client = NewRailwayClient("token", "", "")
    /\ conns = [c \in Conns |-> Goroutine]
    /\ wire = <<>>

\* mutant of nextMatched: the range loop takes the last matching service first
nextMatched_Last(svcs, from, imagePrefixes) ==
    LET hits == {i \in from..Len(svcs) : matched(svcs[i].image, imagePrefixes) # 0}
    IN  IF hits = {}
        THEN 0
        ELSE CHOOSE i \in hits : \A j \in hits : i >= j

\* the position of the first service at or after from whose image matches,
\* 0 when the range loop runs out
nextMatched(svcs, from, imagePrefixes) ==
    LET hits == {i \in from..Len(svcs) : matched(svcs[i].image, imagePrefixes) # 0}
    IN  IF hits = {}
        THEN 0
        ELSE CHOOSE i \in hits : \A j \in hits : i <= j

\* handleUpdate writes the response for what UpdateServices returned
Finish(updated, err, log) ==
    /\ pc' = "done"
    /\ resp' = respond(updated, err)
    /\ updatedServices' = updated
    /\ calls' = log
    /\ UNCHANGED idx

\* UpdateServiceImage is entered for svcs[i]: the update mutation is sent
SendUpdate(svcs, i, updated, log) ==
    LET service == svcs[i]
        imagePrefixes == req.body.image_prefixes
        imagePrefix == imagePrefixes[matched(service.image, imagePrefixes)]
    IN  /\ pc' = "update"
        /\ idx' = i
        /\ updatedServices' = updated
        /\ calls' = Append(log,
               [Call("update", req.body.environment_id, service.id,
                     newImage(service.image, imagePrefix, req.body.new_version))
                EXCEPT !.credentials = registryCredentials(client)])
        /\ UNCHANGED resp

\* the UpdateServices loop from position from on, up to its next remote
\* call or to its return
Continue(svcs, from, updated, log) ==
    LET i == nextMatched(svcs, from, req.body.image_prefixes)
    IN  IF i = 0
        THEN Finish(updated, NoError, log)
        ELSE SendUpdate(svcs, i, updated, log)

\* handleUpdate: a request arrives; it is rejected, or UpdateServices is
\* called and GetServices sends the Environment query
handleUpdate(r) ==
    /\ pc = "idle"
    /\ req' = r
    /\ IF ValidationError(r) # NoResponse
       THEN /\ pc' = "done"
            /\ resp' = ValidationError(r)
            /\ UNCHANGED <<services, idx, updatedServices, calls>>
       ELSE /\ pc' = "list"
            /\ calls' = Append(calls, Call("list", r.body.environment_id, 0, <<>>))
            /\ UNCHANGED <<services, idx, updatedServices, resp>>
    /\ UNCHANGED harnessVars

\* GetServices failed: UpdateServices returns (nil, err)
GetServicesFailed(reply, err) ==
    /\ Finish(NilSlice, Errorf("failed to get services", err),
              Returned(calls, reply, err))
    /\ UNCHANGED services

\* the Environment query returns: GetServices builds the service list and
\* the loop of UpdateServices starts
GetServicesReturn(reply) ==
    /\ pc = "list"
    /\ LET res == doRequest(reply)
       IN  IF res.err # NoError
           THEN GetServicesFailed(reply, res.err)
           ELSE IF ~res.data.shape
           THEN GetServicesFailed(reply, Errorf("failed to parse services",
                                                <<"cannot unmarshal">>))
           ELSE /\ services' = nodesWithImage(res.data.edges)
                /\ Continue(nodesWithImage(res.data.edges), 1, make(<<>>),
                            Returned(calls, reply, NoError))
    /\ UNCHANGED <<req, harnessVars>>

\* mutant of UpdateServiceImageFailed: the loop logs the error and goes on
\* with the next service (continue in place of return)
UpdateServiceImageFailed_Continue(step, reply, err) ==
    Continue(services, idx + 1, updatedServices, Returned(calls, reply, err))

\* mutant of UpdateServiceImageFailed: the failed service is tried again
UpdateServiceImageFailed_Retry(step, reply, err) ==
    /\ SendUpdate(services, idx, updatedServices, Returned(calls, reply, err))

\* UpdateServiceImage returned err for services[idx]: UpdateServices stops
\* and returns what it has updated so far
UpdateServiceImageFailed(step, reply, err) ==
    Finish(updatedServices,
           Errorf("failed to update service",
                  Errorf(services[idx].name, Errorf(step, err))),
           Returned(calls, reply, err))

\* the update mutation returns: the deploy mutation is sent, or the error
\* is returned
UpdateReturn(reply) ==
    /\ pc = "update"
    /\ LET res == doRequest(reply)
       IN  IF res.err # NoError
           THEN UpdateServiceImageFailed("failed to update service instance",
                                         reply, res.err)
           ELSE /\ pc' = "deploy"
                /\ calls' = Append(Returned(calls, reply, NoError),
                                   Call("deploy", req.body.environment_id,
                                        services[idx].id, <<>>))
                /\ UNCHANGED <<idx, updatedServices, resp>>
    /\ UNCHANGED <<req, services, harnessVars>>

\* mutant of DeployReturn: the error of the deploy mutation is dropped
DeployReturn_IgnoreError(reply) ==
    /\ pc = "deploy"
    /\ Continue(services, idx + 1, append(updatedServices, services[idx].name),
                Returned(calls, reply, doRequest(reply).err))
    /\ UNCHANGED <<req, services, harnessVars>>

\* the deploy mutation returns: the service counts as updated and the loop
\* goes on, or the error is returned
DeployReturn(reply) ==
    /\ pc = "deploy"
    /\ LET res == doRequest(reply)
       IN  IF res.err # NoError
           THEN UpdateServiceImageFailed("failed to deploy service instance",
                                         reply, res.err)
           ELSE Continue(services, idx + 1,
                         append(updatedServices, services[idx].name),
                         Returned(calls, reply, NoError))
    /\ UNCHANGED <<req, services, harnessVars>>

\* the server takes the next request: nothing of the last one is kept
ServeNext ==
    /\ pc = "done"
    /\ pc' = "idle"
    /\ req' = NoRequest
    /\ services' = <<>>
    /\ idx' = 0
    /\ updatedServices' = NilSlice
    /\ calls' = <<>>
    /\ resp' = NoResponse
    /\ UNCHANGED harnessVars

Next ==
    \/ \E r \in Requests : handleUpdate(r)
    \/ \E reply \in RemoteReplies(ListDatas) : GetServicesReturn(reply)
    \/ \E reply \in RemoteReplies(MutationDatas) : UpdateReturn(reply)
    \/ \E reply \in RemoteReplies(MutationDatas) : DeployReturn(reply)
    \/ ServeNext

Spec == Init /\ [][Next]_vars

(***************************************************************************)
(* The match and rewrite of the UpdateServices loop on its own: one        *)
(* service image against one prefix list and one version                   *)
(***************************************************************************)
\* the images of the loop: GetServices lets no empty image through
RwImages == SeqsUpTo(Alphabet, MaxImageLen) \ {<<>>}
RwPrefixes == SeqsUpTo(Alphabet, MaxPrefixLen)
RwPrefixLists == {<<p>> : p \in RwPrefixes} \cup {<<p, q>> : p, q \in RwPrefixes}
RwVersions == {<<c>> : c \in Alphabet}

InitRewrite ==
    /\ pc = "idle"
    /\ req = NoRequest
    /\ services = <<>>
    /\ idx = 0
    /\ updatedServices = NilSlice
    /\ calls = <<>>
    /\ resp = NoResponse
    /\ rwImage \in RwImages
    /\ rwPrefixes \in RwPrefixLists
    /\ rwVersion \in RwVersions
    /\ rwOut = [applied |-> FALSE, matched |-> 0, image |-> <<>>]
    /\ rwAgain = [applied |-> FALSE, matched |-> 0, image |-> <<>>]
    /\ mpOut = [applied |-> FALSE, result |-> FALSE]
    /\ rcDoc = NoDeployment
    /\ rcRuns = <<>>
    /\ client = NewRailwayClient("token", "", "")
    /\ conns = [c \in Conns |-> Goroutine]
    /\ wire = <<>>

\* one pass of the loop body over rwImage: the matched prefix and newImage
Rewrite ==
    /\ ~rwOut.applied
    /\ LET m == matched(rwImage, rwPrefixes)
       IN  rwOut' = [applied |-> TRUE, matched |-> m,
                     image |-> IF m = 0
                               THEN <<>>
                               ELSE newImage(rwImage, rwPrefixes[m], rwVersion)]
    /\ UNCHANGED <<rwImage, rwPrefixes, rwVersion, rwAgain, mpOut, rcVars, client,
                   srvVars, handlerVars>>

\* the same request again, the service now at the image the first one sent:
\* one more pass of the loop body, over rwOut.image
RewriteAgain ==
    /\ rwOut.applied
    /\ rwOut.matched # 0
    /\ ~rwAgain.applied
    /\ LET m == matched(rwOut.image, rwPrefixes)
       IN  rwAgain' = [applied |-> TRUE, matched |-> m,
                       image |-> IF m = 0
                                 THEN <<>>
                                 ELSE newImage(rwOut.image, rwPrefixes[m], rwVersion)]
    /\ UNCHANGED <<rwImage, rwPrefixes, rwVersion, rwOut, mpOut, rcVars, client,
                   srvVars, handlerVars>>

NextRewrite == Rewrite \/ RewriteAgain

SpecRewrite == InitRewrite /\ [][NextRewrite]_vars

(***************************************************************************)
(* The handler with a client of any registry configuration, for requests   *)
(* of one prefix and environments of images it matches                     *)
(***************************************************************************)
Tokens == {"token"}
RegistryUsers == {"", "user"}
RegistryPasses == {"", "pass"}

ClientRequests == {r \in Requests : r.body.image_prefixes = <<<<"a">>>>}
ClientListDatas ==
    {ListData(Edges(images), <<>>) :
        images \in SeqsUpTo({<<"a", ":", "b">>}, MaxServices)}

InitClient ==
    /\ pc = "idle"
    /\ req = NoRequest
    /\ services = <<>>
    /\ idx = 0
    /\ updatedServices = NilSlice
    /\ calls = <<>>
    /\ resp = NoResponse
    /\ rwImage = <<>>
    /\ rwPrefixes = <<>>
    /\ rwVersion = <<>>
    /\ rwOut = [applied |-> FALSE, matched |-> 0, image |-> <<>>]
    /\ rwAgain = [applied |-> FALSE, matched |-> 0, image |-> <<>>]
    /\ mpOut = [applied |-> FALSE, result |-> FALSE]
    /\ rcDoc = NoDeployment
    /\ rcRuns = <<>>
    /\ \E token \in Tokens, registryUser \in RegistryUsers,
          registryPass \in RegistryPasses :
            client = NewRailwayClient(token, registryUser, registryPass)
    /\ conns = [c \in Conns |-> Goroutine]
    /\ wire = <<>>

NextClient ==
    \/ \E r \in ClientRequests : handleUpdate(r)
    \/ \E reply \in RemoteReplies(ClientListDatas) : GetServicesReturn(reply)
    \/ \E reply \in RemoteReplies(MutationDatas) : UpdateReturn(reply)
    \/ \E reply \in RemoteReplies(MutationDatas) : DeployReturn(reply)
    \/ ServeNext

SpecClient == InitClient /\ [][NextClient]_vars

(***************************************************************************)
(* The server with a request on each connection: the handlers of the       *)
(* connections take their steps in any order                               *)
(***************************************************************************)
SrvRequests ==
    {r \in ClientRequests :
        /\ r.method = "PUT"
        /\ ~r.body.malformed
        /\ IsUUID(r.body.project_id)
        /\ IsUUID(r.body.environment_id)}

\* the good replies and one kind of failure
SrvReplies(datas) ==
    {r \in RemoteReplies(datas) :
        ReplyOK(r) \/ (~r.neterr /\ ~r.readerr /\ r.json /\ r.errors = <<>>)}

\* the handler h of connection c returns from UpdateServices and responds
Responds(c, h, updated, err) ==
    /\ conns' = [conns EXCEPT ![c] = [h EXCEPT !.pc = "done",
                                               !.updatedServices = updated,
                                               !.resp = respond(updated, err)]]
    /\ UNCHANGED wire

\* the UpdateServices loop of connection c from position from on
Loops(c, h, from, updated) ==
    LET i == nextMatched(h.services, from, h.req.body.image_prefixes)
    IN  IF i = 0
        THEN Responds(c, h, updated, NoError)
        ELSE /\ conns' = [conns EXCEPT ![c] = [h EXCEPT !.pc = "update",
                                                        !.idx = i,
                                                        !.updatedServices = updated]]
             /\ wire' = Append(wire,
                    Sent(c, "update", h.req.body.environment_id, h.services[i].id,
                         newImage(h.services[i].image,
                                  h.req.body.image_prefixes[
                                      matched(h.services[i].image,
                                              h.req.body.image_prefixes)],
                                  h.req.body.new_version)))

\* mutant of Serve: the services of the project are asked for, the
\* project_id going where the environment_id belongs
Serve_ListByProject(c, r) ==
    /\ conns[c].pc = "idle"
    /\ IF ValidationError(r) # NoResponse
       THEN /\ conns' = [conns EXCEPT ![c] = [@ EXCEPT !.pc = "done", !.req = r,
                                                      !.resp = ValidationError(r)]]
            /\ UNCHANGED wire
       ELSE /\ conns' = [conns EXCEPT ![c] = [@ EXCEPT !.pc = "list", !.req = r]]
            /\ wire' = Append(wire, Sent(c, "list", r.body.project_id, 0, <<>>))
    /\ UNCHANGED <<handlerVars, rwVars, mpOut, rcVars, client>>

\* a request arrives on connection c and its goroutine runs handleUpdate
Serve(c, r) ==
    /\ conns[c].pc = "idle"
    /\ IF ValidationError(r) # NoResponse
       THEN /\ conns' = [conns EXCEPT ![c] = [@ EXCEPT !.pc = "done", !.req = r,
                                                      !.resp = ValidationError(r)]]
            /\ UNCHANGED wire
       ELSE /\ conns' = [conns EXCEPT ![c] = [@ EXCEPT !.pc = "list", !.req = r]]
            /\ wire' = Append(wire, Sent(c, "list", r.body.environment_id, 0, <<>>))
    /\ UNCHANGED <<handlerVars, rwVars, mpOut, rcVars, client>>

\* the Environment query of connection c returns
ListReturns(c, reply) ==
    /\ conns[c].pc = "list"
    /\ LET h == Received(conns[c], reply)
           res == doRequest(reply)
       IN  IF res.err # NoError
           THEN Responds(c, h, NilSlice,
                         Errorf("failed to get services", res.err))
           ELSE IF ~res.data.shape
           THEN Responds(c, h, NilSlice,
                         Errorf("failed to get services",
                                Errorf("failed to parse services",
                                       <<"cannot unmarshal">>)))
           ELSE Loops(c, [h EXCEPT !.services = nodesWithImage(res.data.edges)],
                      1, make(<<>>))
    /\ UNCHANGED <<handlerVars, rwVars, mpOut, rcVars, client>>

\* the update mutation of connection c returns
UpdateReturns(c, reply) ==
    /\ conns[c].pc = "update"
    /\ LET h == Received(conns[c], reply)
           res == doRequest(reply)
       IN  IF res.err # NoError
           THEN Responds(c, h, h.updatedServices,
                         Errorf("failed to update service",
                                Errorf(h.services[h.idx].name,
                                       Errorf("failed to update service instance",
                                              res.err))))
           ELSE /\ conns' = [conns EXCEPT ![c] = [h EXCEPT !.pc = "deploy"]]
                /\ wire' = Append(wire, Sent(c, "deploy", h.req.body.environment_id,
                                             h.services[h.idx].id, <<>>))
    /\ UNCHANGED <<handlerVars, rwVars, mpOut, rcVars, client>>

\* the deploy mutation of connection c returns
DeployReturns(c, reply) ==
    /\ conns[c].pc = "deploy"
    /\ LET h == Received(conns[c], reply)
           res == doRequest(reply)
       IN  IF res.err # NoError
           THEN Responds(c, h, h.updatedServices,
                         Errorf("failed to update service",
                                Errorf(h.services[h.idx].name,
                                       Errorf("failed to deploy service instance",
                                              res.err))))
           ELSE Loops(c, h, h.idx + 1,
                      append(h.updatedServices, h.services[h.idx].name))
    /\ UNCHANGED <<handlerVars, rwVars, mpOut, rcVars, client>>

NextServer ==
    \E c \in Conns :
        \/ \E r \in SrvRequests : Serve(c, r)
        \/ \E reply \in SrvReplies(ClientListDatas) : ListReturns(c, reply)
        \/ \E reply \in SrvReplies(MutationDatas) : UpdateReturns(c, reply)
        \/ \E reply \in SrvReplies(MutationDatas) : DeployReturns(c, reply)

SpecServer == Init /\ [][NextServer]_vars

(***************************************************************************)
(* The server with valid requests for either project, for an environment   *)
(* of at most one service                                                  *)
(***************************************************************************)
PairRequests ==
    {[r EXCEPT !.body.project_id = project] :
        r \in {q \in SrvRequests : ValidationError(q) = NoResponse},
        project \in ValidUUIDs}
PairListDatas ==
    {ListData(Edges(images), <<>>) :
        images \in {<<>>, <<<<"a", ":", "b">>>>}}

NextPair ==
    \E c \in Conns :
        \/ \E r \in PairRequests : Serve(c, r)
        \/ \E reply \in SrvReplies(PairListDatas) : ListReturns(c, reply)
        \/ \E reply \in SrvReplies(MutationDatas) : UpdateReturns(c, reply)
        \/ \E reply \in SrvReplies(MutationDatas) : DeployReturns(c, reply)

SpecPair == Init /\ [][NextPair]_vars

(***************************************************************************)
(* matchesPrefix on its own: one image against one prefix list, over an    *)
(* alphabet with a letter in both cases                                    *)
(***************************************************************************)
MpAlphabet == {"a", "A", ":"}
MpImages == SeqsUpTo(MpAlphabet, MaxImageLen)
MpPrefixes == SeqsUpTo(MpAlphabet, MaxPrefixLen)
MpPrefixLists ==
    {<<>>} \cup {<<p>> : p \in MpPrefixes} \cup {<<p, q>> : p, q \in MpPrefixes}

InitMatch ==
    /\ pc = "idle"
    /\ req = NoRequest
    /\ services = <<>>
    /\ idx = 0
    /\ updatedServices = NilSlice
    /\ calls = <<>>
    /\ resp = NoResponse
    /\ rwImage \in MpImages
    /\ rwPrefixes \in MpPrefixLists
    /\ rwVersion = <<>>
    /\ rwOut = [applied |-> FALSE, matched |-> 0, image |-> <<>>]
    /\ rwAgain = [applied |-> FALSE, matched |-> 0, image |-> <<>>]
    /\ mpOut = [applied |-> FALSE, result |-> FALSE]
    /\ rcDoc = NoDeployment
    /\ rcRuns = <<>>
    /\ client = NewRailwayClient("token", "", "")
    /\ conns = [c \in Conns |-> Goroutine]
    /\ wire = <<>>

\* one call of matchesPrefix(rwImage, rwPrefixes)
MatchesPrefix ==
    /\ ~mpOut.applied
    /\ mpOut' = [applied |-> TRUE, result |-> matchesPrefix(rwImage, rwPrefixes)]
    /\ UNCHANGED <<rwVars, rcVars, client, srvVars, handlerVars>>

NextMatch == MatchesPrefix

SpecMatch == InitMatch /\ [][NextMatch]_vars

(***************************************************************************)
(* resolveReplicaCount on its own: the platform holds one deployment and   *)
(* the function is called on it a few times, the metadata delivered as an  *)
(* object or as a string                                                   *)
(***************************************************************************)
MaxRegions == 2
MaxRuns == 2

RegionName(i) == "r" \o ToString(i)
Counts == {Num(0, 1), Num(1, 2), Num(1, 1), Num(3, 1), Bool(TRUE)}
RegionConfigs ==
    {Obj(<<Member(Key("numReplicas"), c)>>) : c \in Counts}
        \cup {Obj(<<>>), Num(3, 1), Arr(<<Num(3, 1)>>)}
MultiRegionConfigs ==
    UNION {{Obj([i \in 1..k |-> Member(Key(RegionName(i)), f[i])]) :
               f \in [1..k -> RegionConfigs]} : k \in 0..MaxRegions}

Under(name, v) == Obj(<<Member(Key(name), v)>>)
MetaOf(multiRegionConfig) ==
    Under("serviceManifest", Under("deploy",
        Under("multiRegionConfig", multiRegionConfig)))
\* a deploy section that holds a flag next to its multiRegionConfig
SleepMetaOf(multiRegionConfig) ==
    Under("serviceManifest", Under("deploy",
        Obj(<<Member(Key("sleepApplication"), Bool(FALSE)),
              Member(Key("multiRegionConfig"), multiRegionConfig)>>)))
MetaValues ==
    {MetaOf(m) : m \in MultiRegionConfigs}
        \cup {SleepMetaOf(Under(RegionName(1), Under("numReplicas", c))) :
                  c \in Counts}
        \cup {MetaOf(Num(3, 1)), MetaOf(Arr(<<>>)),
              Under("serviceManifest", Under("deploy", Obj(<<>>))),
              Under("serviceManifest", Obj(<<>>)),
              Under("serviceManifest", Bool(TRUE)),
              Obj(<<>>), Null, Num(3, 1), Bool(TRUE), Bool(FALSE),
              Arr(<<>>), Arr(<<MetaOf(Obj(<<>>)), Null>>)}

Docs ==
    {[kind |-> "json", value |-> v] : v \in MetaValues}
        \cup {NoDeployment, NoMeta, NotJSON}

\* the text of the metadata, and the deployment as GetServices decodes it:
\* the text itself, or a string holding the text
MetaText(doc) ==
    IF doc.kind = "json" THEN Encode(doc.value) ELSE <<Word("not-json")>>
Forms(doc) ==
    IF doc.kind \in {"nodeployment", "nometa"}
    THEN {"direct"}
    ELSE {"direct", "string"}
Delivered(doc, form) ==
    CASE doc.kind = "nodeployment" -> NilDeployment
      [] doc.kind = "nometa" -> NilMeta
      [] OTHER -> IF form = "string"
                  THEN Deployment(<<StrTok(MetaText(doc))>>)
                  ELSE Deployment(MetaText(doc))

InitReplica ==
    /\ pc = "idle"
    /\ req = NoRequest
    /\ services = <<>>
    /\ idx = 0
    /\ updatedServices = NilSlice
    /\ calls = <<>>
    /\ resp = NoResponse
    /\ rwImage = <<>>
    /\ rwPrefixes = <<>>
    /\ rwVersion = <<>>
    /\ rwOut = [applied |-> FALSE, matched |-> 0, image |-> <<>>]
    /\ rwAgain = [applied |-> FALSE, matched |-> 0, image |-> <<>>]
    /\ mpOut = [applied |-> FALSE, result |-> FALSE]
    /\ rcDoc \in Docs
    /\ rcRuns = <<>>
    /\ client = NewRailwayClient("token", "", "")
    /\ conns = [c \in Conns |-> Goroutine]
    /\ wire = <<>>

\* one call of resolveReplicaCount on the deployment of rcDoc
ResolveReplicaCount ==
    /\ Len(rcRuns) < MaxRuns
    /\ \E form \in Forms(rcDoc) :
          \E order \in Orders(rangeOf(Delivered(rcDoc, form))) :
              rcRuns' = Append(rcRuns,
                  [form |-> form, order |-> order,
                   replicas |-> resolveReplicaCount(Delivered(rcDoc, form), order)])
    /\ UNCHANGED <<rcDoc, rwVars, mpOut, client, srvVars, handlerVars>>

NextReplica == ResolveReplicaCount

SpecReplica == InitReplica /\ [][NextReplica]_vars

(***************************************************************************)
(* Vocabulary of the properties                                            *)
(***************************************************************************)
Range(f) == {f[i] : i \in DOMAIN f}

\* the positions of the history that hold a call of one of ops
CallsOf(ops) == {q \in 1..Len(calls) : calls[q].op \in ops}

Mutations == {"update", "deploy"}

\* the remote exchange of call c failed: network or read failure, non-200
\* status, unparseable body, GraphQL error payload, or (for the service
\* query) data that does not fit the expected shape
RemoteFailure(c) ==
    /\ c.done
    /\ \/ c.reply.neterr
       \/ c.reply.readerr
       \/ c.reply.status # 200
       \/ ~c.reply.json
       \/ c.reply.errors # <<>>
       \/ c.op = "list" /\ ~c.reply.data.shape

RemoteSuccess(c) == c.done /\ ~RemoteFailure(c)

\* the position in services of the service with this id, 0 if there is none
PositionOf(id) ==
    IF \E i \in 1..Len(services) : services[i].id = id
    THEN CHOOSE i \in 1..Len(services) : services[i].id = id
    ELSE 0

\* service.Image starts with one of the prefixes of the request
StartsWithSome(image, prefixes) ==
    \E k \in 1..Len(prefixes) : HasPrefix(image, prefixes[k])

\* the services both of whose calls have succeeded, in service order
FullyUpdated ==
    SelectSeq(services,
              LAMBDA sv : /\ \E q \in CallsOf({"update"}) :
                                 calls[q].id = sv.id /\ RemoteSuccess(calls[q])
                          /\ \E q \in CallsOf({"deploy"}) :
                                 calls[q].id = sv.id /\ RemoteSuccess(calls[q]))

NamesOf(svcs) == [i \in 1..Len(svcs) |-> svcs[i].name]

\* the service names a response body mentions, in its list or its error text
NamesIn(body) ==
    (IF "updated_services" \in DOMAIN body
     THEN Range(body.updated_services.elems) ELSE {})
    \cup
    (IF "error" \in DOMAIN body
     THEN Range(body.error) \cap Range(NamesOf(services)) ELSE {})

\* the request failed at a mutation after at least one service was updated
FailedAfterProgress ==
    /\ pc = "done"
    /\ \E q \in CallsOf(Mutations) : RemoteFailure(calls[q])
    /\ Len(updatedServices.elems) >= 1

\* strings.LastIndex(s, sep) for a one-character sep, 1-based; 0 when absent
LastIndexOf(s, sep) ==
    IF \E i \in 1..Len(s) : s[i] = sep
    THEN CHOOSE i \in 1..Len(s) :
             /\ s[i] = sep
             /\ \A j \in (i + 1)..Len(s) : s[j] # sep
    ELSE 0

\* the rewrite that cuts the image after its last separator
RewriteAfterLastColon(image, prefix, version) ==
    LET cut == LastIndexOf(image, ":")
        tagged == IF cut = 0
                  THEN image \o <<":">> \o version
                  ELSE SubSeq(image, 1, cut) \o version
    IN  IF HasPrefix(tagged, prefix)
        THEN tagged
        ELSE prefix \o <<":">> \o version

\* the service instances the reply to the Environment query carries
Page == calls[1].reply.data.edges

\* the service instances of the environment: those of the reply and those
\* the platform keeps behind it
Environment == Page \o calls[1].reply.data.behind

\* the reported instances that have an image starting with a requested prefix
Eligible ==
    SelectSeq(Environment,
              LAMBDA e : /\ e.image # <<>>
                         /\ StartsWithSome(e.image, req.body.image_prefixes))

EndsWith(s, suffix) ==
    /\ Len(suffix) <= Len(s)
    /\ SubSeq(s, Len(s) - Len(suffix) + 1, Len(s)) = suffix

\* the text that tells the cause of the failed exchange of call c
Cause(c) ==
    IF c.reply.neterr THEN "connection refused"
    ELSE IF c.reply.readerr THEN "unexpected EOF"
    ELSE IF c.reply.status # 200 THEN ToString(c.reply.status)
    ELSE IF ~c.reply.json THEN "invalid character"
    ELSE IF c.reply.errors # <<>> THEN c.reply.errors[1]
    ELSE "cannot unmarshal"

\* what is wrong with a body, by the name the error message uses for it
Offences(b) ==
    IF b.malformed
    THEN {"Invalid JSON"}
    ELSE {m \in {"Invalid project_id", "Invalid environment_id",
                 "image_prefixes cannot be empty", "new_version cannot be empty"} :
             \/ m = "Invalid project_id" /\ ~IsUUID(b.project_id)
             \/ m = "Invalid environment_id" /\ ~IsUUID(b.environment_id)
             \/ m = "image_prefixes cannot be empty" /\ Len(b.image_prefixes) = 0
             \/ m = "new_version cannot be empty" /\ Len(b.new_version) = 0}

(***************************************************************************)
(* C1: when the update or deploy call fails for the k-th matching service  *)
(* (k >= 2), the HTTP response reports an error and lists exactly the      *)
(* services updated before the failure.  The handler drops the partial     *)
(* list UpdateServices hands back, so this fails.                          *)
(***************************************************************************)
C1_PartialProgressReported ==
    FailedAfterProgress =>
        /\ "error" \in DOMAIN resp.body
        /\ NamesIn(resp.body) = Range(updatedServices.elems)

(***************************************************************************)
(* C2: per matched service the update mutation is issued first and the     *)
(* deploy mutation second, the deploy only after the update succeeded; a   *)
(* service's name is in the updated list iff both of its calls succeeded.  *)
(***************************************************************************)
C2_UpdateThenDeploy ==
    /\ \A q \in CallsOf({"deploy"}) :
          /\ q > 1
          /\ calls[q - 1].op = "update"
          /\ calls[q - 1].id = calls[q].id
          /\ RemoteSuccess(calls[q - 1])
    /\ \A q \in CallsOf({"update"}) :
          RemoteSuccess(calls[q]) =>
              /\ q < Len(calls)
              /\ calls[q + 1].op = "deploy"
              /\ calls[q + 1].id = calls[q].id
    /\ updatedServices.elems = NamesOf(FullyUpdated)

C2_Witness ==
    /\ pc = "done"
    /\ Len(updatedServices.elems) = 1
    /\ Len(calls) = 5
    /\ calls[4].op = "update" /\ RemoteSuccess(calls[4])
    /\ calls[5].op = "deploy" /\ RemoteFailure(calls[5])

(***************************************************************************)
(* C3: after the first failed call no further remote call of any kind is   *)
(* issued for the request: a failed call is the last of the history, the   *)
(* handler is done, and the history holds nothing but the service query,   *)
(* updates and deploys (no rollback of services already updated).          *)
(***************************************************************************)
C3_StopAtFirstFailure ==
    /\ \A q \in 1..Len(calls) :
          RemoteFailure(calls[q]) => q = Len(calls) /\ pc = "done"
    /\ \A q \in 1..Len(calls) : calls[q].op \in {"list"} \cup Mutations

\* the first of three matching services fails at its update
C3_Witness ==
    /\ pc = "done"
    /\ Len(services) = 3
    /\ \A i \in 1..3 : StartsWithSome(services[i].image, req.body.image_prefixes)
    /\ Len(calls) = 2
    /\ calls[2].op = "update" /\ RemoteFailure(calls[2])

(***************************************************************************)
(* C4: remote side effects follow the order of the services GetServices    *)
(* returned: a call is issued only when every earlier call has returned,   *)
(* a call for a service is issued only when every matching service before  *)
(* it has had both its calls, and the updated names are in service order.  *)
(***************************************************************************)
C4_ServiceOrder ==
    /\ \A q \in 1..(Len(calls) - 1) : calls[q].done
    /\ \A p, q \in CallsOf(Mutations) :
          p < q => /\ PositionOf(calls[p].id) > 0
                   /\ PositionOf(calls[p].id) <= PositionOf(calls[q].id)
    /\ \A q \in CallsOf(Mutations) :
          \A i \in 1..(PositionOf(calls[q].id) - 1) :
              StartsWithSome(services[i].image, req.body.image_prefixes) =>
                  /\ \E p \in 1..(q - 1) :
                        /\ calls[p].op = "update"
                        /\ calls[p].id = services[i].id
                        /\ calls[p + 1].op = "deploy"
                        /\ calls[p + 1].id = services[i].id
                        /\ p + 1 < q
    /\ \A a, b \in 1..Len(updatedServices.elems) :
          a < b => \E i, j \in 1..Len(services) :
                       /\ i < j
                       /\ services[i].name = updatedServices.elems[a]
                       /\ services[j].name = updatedServices.elems[b]

\* three services of which the first and the third match, both updated
C4_Witness ==
    /\ pc = "done"
    /\ Len(services) = 3
    /\ ~StartsWithSome(services[2].image, req.body.image_prefixes)
    /\ updatedServices.elems = <<services[1].name, services[3].name>>
    /\ Len(calls) = 5

(***************************************************************************)
(* C5: the rewritten image is the image with everything after its last     *)
(* ':' replaced by the new version (':<version>' appended when it has no   *)
(* ':'), unless that no longer starts with the matched prefix, and then it *)
(* is '<prefix>:<version>'.  The code cuts at the first ':' instead, so    *)
(* this fails for an image with two separators (a registry port).  It is   *)
(* stated for the ordinary requests, a non-empty matched prefix and a      *)
(* version without ':', where it fails already.                            *)
(***************************************************************************)
C5_RewriteAfterLastColon ==
    (/\ rwOut.applied
     /\ rwOut.matched # 0
     /\ rwPrefixes[rwOut.matched] # <<>>
     /\ ":" \notin Range(rwVersion)) =>
        rwOut.image = RewriteAfterLastColon(rwImage, rwPrefixes[rwOut.matched],
                                            rwVersion)

(***************************************************************************)
(* C6: when PUT /update answers 200, every service of the environment      *)
(* whose current image starts with one of the request's prefixes has had   *)
(* a successful update to an image carrying the new tag and a successful   *)
(* deploy, updated_services is exactly the names of those services, and    *)
(* the count in the message is the length of that list.  The environment   *)
(* is all its instances, those behind the page of the reply included.      *)
(***************************************************************************)
C6_SuccessMeansAllUpdated ==
    (pc = "done" /\ resp.status = 200) =>
        /\ \A i \in 1..Len(Eligible) :
              /\ \E q \in CallsOf({"update"}) :
                    /\ calls[q].id = Eligible[i].id
                    /\ calls[q].env = req.body.environment_id
                    /\ EndsWith(calls[q].image, <<":">> \o req.body.new_version)
                    /\ RemoteSuccess(calls[q])
              /\ \E q \in CallsOf({"deploy"}) :
                    /\ calls[q].id = Eligible[i].id
                    /\ calls[q].env = req.body.environment_id
                    /\ RemoteSuccess(calls[q])
        /\ resp.body.updated_services.elems = NamesOf(Eligible)
        /\ Len(Eligible) > 0 =>
              resp.body.message = <<"Successfully updated",
                                    ToString(Len(resp.body.updated_services.elems)),
                                    "service(s)">>

(***************************************************************************)
(* C7: when the service list is fetched and no service image starts with   *)
(* a requested prefix, the answer is 200 with the 'no services matched'    *)
(* message and updated_services the empty list (not null), and no update   *)
(* or deploy call is issued.                                               *)
(***************************************************************************)
C7_NoMatch ==
    (/\ pc = "done"
     /\ Len(calls) >= 1
     /\ RemoteSuccess(calls[1])
     /\ \A i \in 1..Len(services) :
           ~StartsWithSome(services[i].image, req.body.image_prefixes)) =>
        /\ resp.status = 200
        /\ resp.body.message = <<"No services matched the provided image prefixes">>
        /\ ~resp.body.updated_services.isNil
        /\ resp.body.updated_services.elems = <<>>
        /\ CallsOf(Mutations) = {}

\* services with images are listed and none of them matches
C7_Witness ==
    /\ pc = "done"
    /\ Len(calls) = 1
    /\ RemoteSuccess(calls[1])
    /\ Len(services) >= 2
    /\ \A i \in 1..Len(services) :
          ~StartsWithSome(services[i].image, req.body.image_prefixes)
    /\ resp.status = 200

(***************************************************************************)
(* C8: if any remote call of a validated request fails (listing, update    *)
(* or deploy; by network failure, non-200 status, GraphQL error payload or *)
(* unparseable response), the response is 500 with an error that carries   *)
(* the underlying message; 200 is never the answer to such a request.      *)
(***************************************************************************)
C8_RemoteFailureIs500 ==
    /\ \A q \in 1..Len(calls) :
          RemoteFailure(calls[q]) =>
              /\ pc = "done"
              /\ resp.status = 500
              /\ DOMAIN resp.body = {"error"}
              /\ calls[q].err # NoError
              /\ EndsWith(resp.body.error, calls[q].err)
              /\ resp.body.error[Len(resp.body.error)] = Cause(calls[q])
    /\ resp.status = 200 => \A q \in 1..Len(calls) : RemoteSuccess(calls[q])

\* the deploy of the second service fails with a GraphQL error payload
\* after the first service was updated
C8_Witness ==
    /\ pc = "done"
    /\ Len(calls) = 5
    /\ calls[5].op = "deploy"
    /\ RemoteFailure(calls[5])
    /\ calls[5].reply.status = 200
    /\ calls[5].reply.json
    /\ calls[5].reply.errors # <<>>
    /\ resp.status = 500

(***************************************************************************)
(* C9: a PUT /update request that fails validation (malformed JSON, non-   *)
(* UUID project_id or environment_id, empty image_prefixes, empty          *)
(* new_version) is answered 400 with a non-empty error naming an           *)
(* offending field, and no remote call is issued for it.                   *)
(***************************************************************************)
C9_InvalidIs400 ==
    (req.method = "PUT" /\ Offences(req.body) # {}) =>
        /\ pc = "done"
        /\ resp.status = 400
        /\ DOMAIN resp.body = {"error"}
        /\ resp.body.error # <<>>
        /\ resp.body.error[1] \in Offences(req.body)
        /\ calls = <<>>

\* a request whose only fault is the empty new_version
C9_Witness ==
    /\ req.method = "PUT"
    /\ Offences(req.body) = {"new_version cannot be empty"}
    /\ resp.status = 400

(***************************************************************************)
(* C10: a request to /update whose method is not PUT is answered 405,      *)
(* whatever its body, and no remote call is issued for it.                 *)
(***************************************************************************)
C10_NotPutIs405 ==
    (req # NoRequest /\ req.method # "PUT") =>
        /\ pc = "done"
        /\ resp.status = 405
        /\ calls = <<>>

\* a GET whose body would pass every check of a PUT
C10_Witness ==
    /\ resp.status = 405
    /\ req.method = "GET"
    /\ Offences(req.body) = {}

(***************************************************************************)
(* C11: matchesPrefix(image, prefixes) is true iff at least one element of *)
(* prefixes, at whatever position, is a literal, case-sensitive prefix of  *)
(* image: as long as the image at most and equal to it character by        *)
(* character; it is false for the empty prefix list.                       *)
(***************************************************************************)
C11_MatchesPrefix ==
    mpOut.applied =>
        /\ mpOut.result <=>
              \E i \in 1..Len(rwPrefixes) :
                  /\ Len(rwPrefixes[i]) <= Len(rwImage)
                  /\ \A k \in 1..Len(rwPrefixes[i]) : rwImage[k] = rwPrefixes[i][k]
        /\ rwPrefixes = <<>> => ~mpOut.result

\* true by the second prefix alone, the first differing from the start of
\* the image in case only
C11_Witness ==
    /\ mpOut.applied
    /\ mpOut.result
    /\ rwImage = <<"a", ":", "a">>
    /\ rwPrefixes = <<<<"A">>, <<"a", ":">>>>

(***************************************************************************)
(* Vocabulary of the replica properties, read off the document itself      *)
(***************************************************************************)
\* the value under a path of keys, null where the path leaves the objects
RECURSIVE At(_, _)
At(v, path) ==
    IF path = <<>>
    THEN v
    ELSE IF v.t = "obj" /\ \E i \in 1..Len(v.members) : v.members[i].k = Head(path)
    THEN At(v.members[CHOOSE i \in 1..Len(v.members) : v.members[i].k = Head(path)].v,
            Tail(path))
    ELSE Null

\* the number a region reports, null when it reports none
Reported(region) ==
    LET c == At(rcDoc.value, <<Key("serviceManifest"), Key("deploy"),
                               Key("multiRegionConfig"), region, Key("numReplicas")>>)
    IN  IF c.t = "num" THEN c ELSE Null

ReportsPositive(region) == Reported(region).t = "num" /\ Reported(region).n > 0

\* the first region of a scan that reports a positive count, 0 without one
FirstPositive(order) ==
    LET hits == {i \in 1..Len(order) : ReportsPositive(order[i])} IN
    IF hits = {} THEN 0 ELSE CHOOSE i \in hits : \A j \in hits : i <= j

(***************************************************************************)
(* C12: resolveReplicaCount returns the replica count of the first region  *)
(* in scan order whose numReplicas is greater than zero, and 1 when the    *)
(* deployment or its metadata is absent or unparseable, a level of the     *)
(* path is missing, or no region reports a positive count.                 *)
(***************************************************************************)
C12_FirstPositiveRegion ==
    \A i \in 1..Len(rcRuns) :
        LET first == FirstPositive(rcRuns[i].order) IN
        IF first = 0
        THEN rcRuns[i].replicas = 1
        ELSE rcRuns[i].replicas * Reported(rcRuns[i].order[first]).d
                 = Reported(rcRuns[i].order[first]).n

(***************************************************************************)
(* C13: for a metadata object, the call on the string that holds its       *)
(* encoding returns the same replica count as the call on the object.      *)
(***************************************************************************)
C13_StringAsObject ==
    \A i, j \in 1..Len(rcRuns) :
        /\ rcDoc.kind = "json"
        /\ rcDoc.value.t = "obj"
        /\ rcRuns[i].form = "direct"
        /\ rcRuns[j].form = "string"
        => rcRuns[i].replicas = rcRuns[j].replicas

(***************************************************************************)
(* C14: two calls of resolveReplicaCount on the same deployment metadata   *)
(* return the same value.                                                  *)
(***************************************************************************)
C14_Deterministic ==
    \A i, j \in 1..Len(rcRuns) :
        rcRuns[i].form = rcRuns[j].form => rcRuns[i].replicas = rcRuns[j].replicas

(***************************************************************************)
(* C15: a request that passed validation and reached the remote client has *)
(* a non-empty prefix list of non-empty prefixes, and no service is        *)
(* selected by an empty prefix.                                            *)
(***************************************************************************)
C15_PrefixesNonEmpty ==
    calls # <<>> =>
        /\ Len(req.body.image_prefixes) > 0
        /\ \A k \in 1..Len(req.body.image_prefixes) : req.body.image_prefixes[k] # <<>>
        /\ \A q \in CallsOf({"update"}) :
               \E k \in 1..Len(req.body.image_prefixes) :
                   /\ req.body.image_prefixes[k] # <<>>
                   /\ HasPrefix(services[PositionOf(calls[q].id)].image,
                                req.body.image_prefixes[k])

(***************************************************************************)
(* C16: requests are processed one at a time: a request is handled to      *)
(* completion before another is processed, so the remote calls of two      *)
(* requests never interleave.                                              *)
(***************************************************************************)
C16_OneRequestAtATime ==
    /\ \A c, d \in Conns :
           (conns[c].pc \notin {"idle", "done"} /\ conns[d].pc \notin {"idle", "done"})
               => c = d
    /\ \A i, j, k \in 1..Len(wire) :
           (i < j /\ j < k /\ wire[i].conn = wire[k].conn)
               => wire[j].conn = wire[i].conn

(***************************************************************************)
(* C17: within one request the service list is queried at most once and    *)
(* each service gets at most one update call and at most one deploy call,  *)
(* whether the calls succeed or fail.                                      *)
(***************************************************************************)
C17_NoRetry ==
    /\ Cardinality(CallsOf({"list"})) <= 1
    /\ \A op \in Mutations :
           \A p, q \in CallsOf({op}) : calls[p].id = calls[q].id => p = q

\* a request that ended on a failed update of its second service, after
\* three calls for the first one and the failed one, and no call since
C17_Witness ==
    /\ pc = "done"
    /\ Len(calls) = 4
    /\ calls[4].op = "update"
    /\ RemoteFailure(calls[4])
    /\ RemoteSuccess(calls[3])
    /\ Len(services) = 3

(***************************************************************************)
(* C18: GetServices returns exactly the service instances of the response  *)
(* whose image is non-empty, in response order; an instance without image  *)
(* is never returned, matched, updated or deployed.                        *)
(***************************************************************************)
C18_OnlyImageServices ==
    (calls # <<>> /\ RemoteSuccess(calls[1])) =>
        /\ \A e \in 1..Len(Page) :
               Page[e].image # <<>>
                   <=> \E i \in 1..Len(services) : services[i] = Page[e]
        /\ \A i \in 1..Len(services) : services[i] \in Range(Page)
        /\ \A i, j \in 1..Len(services) : i < j => services[i].id < services[j].id
        /\ \A q \in CallsOf(Mutations) : Page[calls[q].id].image # <<>>

\* an instance without image between two with one: the request updated and
\* deployed the first and the third and never called for the second
C18_Witness ==
    /\ pc = "done"
    /\ calls # <<>> /\ RemoteSuccess(calls[1])
    /\ Len(Page) = 3
    /\ Page[2].image = <<>>
    /\ Len(services) = 2
    /\ \E q \in CallsOf({"deploy"}) : calls[q].id = 3 /\ RemoteSuccess(calls[q])
    /\ \A q \in CallsOf(Mutations) : calls[q].id # 2

(***************************************************************************)
(* C19: the replica count resolveReplicaCount gives a service, which is    *)
(* the numReplicas of its update mutation, is at least 1 for every         *)
(* deployment metadata, a positive numReplicas below 1 included.           *)
(***************************************************************************)
C19_AtLeastOneReplica ==
    \A i \in 1..Len(rcRuns) : rcRuns[i].replicas >= 1

(***************************************************************************)
(* C20: the update mutation carries registry credentials iff the client    *)
(* was constructed with a non-empty username and a non-empty password,     *)
(* none when only one of the two is set; no other call carries any; the    *)
(* token and the credentials of the client never change.                   *)
(***************************************************************************)
C20_Credentials ==
    /\ [](\A q \in 1..Len(calls) :
             /\ calls[q].credentials.present
                    <=> /\ calls[q].op = "update"
                        /\ client.registryCredentialUser # ""
                        /\ client.registryCredentialPass # ""
             /\ calls[q].credentials.present
                    => /\ calls[q].credentials.username = client.registryCredentialUser
                       /\ calls[q].credentials.password = client.registryCredentialPass)
    /\ [][client' = client]_vars

\* a client with a username and no password has sent an update mutation
C20_Witness ==
    /\ client.registryCredentialUser # ""
    /\ client.registryCredentialPass = ""
    /\ \E q \in CallsOf({"update"}) : calls[q].done

(***************************************************************************)
(* Vocabulary of the rewrite properties                                    *)
(***************************************************************************)
\* the image up to its first ':', all of it when it has none
BeforeFirstColon(image) ==
    IF \E i \in 1..Len(image) : image[i] = ":"
    THEN SubSeq(image, 1,
                (CHOOSE i \in 1..Len(image) :
                     /\ image[i] = ":"
                     /\ \A j \in 1..(i - 1) : image[j] # ":") - 1)
    ELSE image

(***************************************************************************)
(* C21: the image sent for a matched service starts with the first prefix  *)
(* of the request list that the current image starts with, and ends with   *)
(* ':' followed by the new version.                                        *)
(***************************************************************************)
C21_KeepsPrefixAndTag ==
    (rwOut.applied /\ rwOut.matched # 0) =>
        /\ \E k \in 1..Len(rwPrefixes) :
               /\ HasPrefix(rwImage, rwPrefixes[k])
               /\ \A j \in 1..(k - 1) : ~HasPrefix(rwImage, rwPrefixes[j])
               /\ HasPrefix(rwOut.image, rwPrefixes[k])
        /\ EndsWith(rwOut.image, <<":">> \o rwVersion)

\* the second prefix of the list matched and the retagged image lost it
C21_Witness ==
    /\ rwOut.applied
    /\ rwImage = <<":", "a", "b">>
    /\ rwPrefixes = <<<<"b">>, <<":", "a">>>>
    /\ rwVersion = <<"b">>
    /\ rwOut.image = <<":", "a", ":", "b">>

(***************************************************************************)
(* C22: when the matched prefix contains no ':', the rewritten image is    *)
(* the current image up to its first ':' followed by ':' and the new       *)
(* version; the rewrite is '<prefix>:<version>' in its place only when    *)
(* the matched prefix itself contains a ':'.                               *)
(***************************************************************************)
C22_FallbackOnlyWithColon ==
    (rwOut.applied /\ rwOut.matched # 0) =>
        LET cut == BeforeFirstColon(rwImage) \o <<":">> \o rwVersion
            prefix == rwPrefixes[rwOut.matched]
        IN  /\ ":" \notin Range(prefix) => rwOut.image = cut
            /\ rwOut.image # cut =>
                   /\ ":" \in Range(prefix)
                   /\ rwOut.image = prefix \o <<":">> \o rwVersion

\* a prefix without ':' matched an image with two of them
C22_Witness ==
    /\ rwOut.applied
    /\ rwImage = <<"a", ":", "b", ":">>
    /\ rwPrefixes = <<<<"a">>>>
    /\ rwVersion = <<"b">>
    /\ rwOut.image = <<"a", ":", "b">>

(***************************************************************************)
(* C23: the rewrite is idempotent under a fixed prefix list and version:   *)
(* the rewritten image matches the same first prefix as the image it came  *)
(* from, and rewriting it again gives the same string, so the repeated     *)
(* request sends the same image.                                           *)
(***************************************************************************)
C23_RewriteIdempotent ==
    rwAgain.applied =>
        /\ rwAgain.matched = rwOut.matched
        /\ rwAgain.image = rwOut.image

(***************************************************************************)
(* Vocabulary of the properties of two requests                            *)
(***************************************************************************)
\* the remote calls of connection c in the order sent: operation, variables
CallsOn(c) ==
    LET mine == SelectSeq(wire, LAMBDA w : w.conn = c)
    IN  [i \in 1..Len(mine) |->
            [op |-> mine[i].op, env |-> mine[i].env, id |-> mine[i].id,
             image |-> mine[i].image]]

\* two requests that differ in their project_id at most
SameButProject(r, q) == [r EXCEPT !.body.project_id = q.body.project_id] = q

(***************************************************************************)
(* C24: the project_id is validated and nothing more: two validated        *)
(* requests that differ only in their project_id, given the same replies,  *)
(* make the same remote calls with the same arguments and get the same     *)
(* response.                                                               *)
(***************************************************************************)
C24_ProjectIgnored ==
    \A c, d \in Conns :
        (/\ c # d
         /\ conns[c].pc # "idle"
         /\ conns[d].pc # "idle"
         /\ conns[c].replies = conns[d].replies
         /\ SameButProject(conns[c].req, conns[d].req)
         /\ ValidationError(conns[c].req) = NoResponse
         /\ ValidationError(conns[d].req) = NoResponse)
            => /\ CallsOn(c) = CallsOn(d)
               /\ conns[c].pc = conns[d].pc
               /\ conns[c].resp = conns[d].resp

\* two requests for different projects, both answered 200 with the same
\* updated service after the same three replies
C24_Witness ==
    /\ conns[1].req.body.project_id # conns[2].req.body.project_id
    /\ SameButProject(conns[1].req, conns[2].req)
    /\ conns[1].pc = "done"
    /\ conns[2].pc = "done"
    /\ conns[1].replies = conns[2].replies
    /\ Len(conns[1].replies) = 3
    /\ conns[1].resp.status = 200
    /\ Len(CallsOn(2)) = 3

====
